---- MODULE Spec2Model ----
(***************************************************************************)
(* Model of the editor widgets of editor/src/editor/GUIComponents.cpp:     *)
(* SFileDropTarget, SPiano, SValueMenu, SActionMenu and STextButton.       *)
(*                                                                         *)
(* The widgets share no state.  A behaviour constructs one widget (the     *)
(* variable widget names its class) and then runs that widget's handlers;  *)
(* the members of the other classes keep their constructed values.         *)
(* Coordinates (CCoord) are modelled on the integers, colours and menu     *)
(* items as small identifiers.                                             *)
(***************************************************************************)
EXTENDS Integers, Sequences, FiniteSets

(* ------------------------------ bounds -------------------------------- *)

\* most items carried by one drag package
MaxItems == 2
\* addKeyRange arguments lie this far to either side of key 0 and of key 127
KeyMargin == 1
\* font sizes 1..MaxFontSize
MaxFontSize == 12
\* view heights reach this far on both sides of the height that leaves no keys
HeightMargin == 4
\* view widths reach this far on both sides of the width of exactly 128 keys
WidthMargin == 4

\* most entries of one menu
MaxEntries == 2
\* entry values and tags 0..MaxValue
MaxValue == 2
\* most closures waiting in the frame's after-event queue
MaxDeferred == 2

\* colours 0..MaxColor
MaxColor == 2

(* ------------------------- program constants --------------------------- *)

NumKeys == 128
LastKey == 127

VARIABLES
    widget,          \* class of the widget this behaviour constructed
    \* SFileDropTarget
    op_,             \* DragOperation chosen by the last onDragEnter/onDragLeave
    dropFunction_,   \* TRUE when a file-drop callback is set
    lastEnter,       \* history: the most recent onDragEnter / onDragLeave
    dropCall,        \* history: the drag handler that ran last and its package
    dropResult,      \* history: what that handler returned
    dropInvoked,     \* history: whether that handler invoked dropFunction_
    \* SPiano
    viewSize,        \* CView's size, a CRect
    fontSize,        \* font_->getSize()
    keyInRange_,     \* std::bitset<128>: the bit of every key
    pc,              \* position of SPiano::draw: "idle", "scan" or "extend"
    rangeStart,      \* draw's local of the range scan
    rangeEnd,        \* draw's local of the range scan
    bars,            \* the bars <<rangeStart, rangeEnd>> this draw has filled
    reads,           \* the indices at which this draw has read keyInRange_
    zones,           \* the rectangles getZoneDimensions last gave its caller
    unpadded,        \* history: those rectangles before paddings and centering
    pianoCall,       \* history: the SPiano method called last, with its arguments
    \* SValueMenu and SActionMenu (CParamDisplay, CControl)
    menuItems_,      \* the CMenuItem of every entry, in menu order
    menuItemValues_, \* SValueMenu: the value of every entry, in menu order
    menuItemTags_,   \* SActionMenu: the tag of every entry, in menu order
    value,           \* CControl's value
    tag,             \* CControl's tag
    listener,        \* TRUE when the control has a listener
    frame,           \* TRUE when getFrame() is not null (the view is attached)
    deferred,        \* closures waiting in the frame's doAfterEventProcessing queue
    popup,           \* the items of the COptionMenu that is popped up, if any
    popupOpen,       \* TRUE while that COptionMenu is popped up
    notified,        \* history: what each valueChanged call of the last click saw
    menuCall,        \* history: the menu handler that ran last
    \* STextButton and SActionMenu hover
    hovered_,
    inactive_,
    hoverColor_,
    inactiveColor_,
    textColor,       \* CTextButton's stored text colour
    fontColor,       \* CParamDisplay's stored font colour
    drawColor,       \* history: the stored colour while the base class last drew
    lastMouse,       \* history: the most recent of mouse-enter / mouse-exit
    firstColor       \* history: the stored colour at construction

dropVars == <<op_, dropFunction_, lastEnter, dropCall, dropResult, dropInvoked>>

pianoVars == <<viewSize, fontSize, keyInRange_, pc, rangeStart, rangeEnd, bars,
               reads, zones, unpadded, pianoCall>>

menuVars == <<menuItems_, menuItemValues_, menuItemTags_, value, tag, listener,
              frame, deferred, popup, popupOpen, notified, menuCall>>

hoverVars == <<hovered_, inactive_, hoverColor_, inactiveColor_, textColor,
               fontColor, drawColor, lastMouse, firstColor>>

vars == <<widget, dropVars, pianoVars, menuVars, hoverVars>>

\* what the handlers of one class leave alone
notDrop == <<widget, pianoVars, menuVars, hoverVars>>
notPiano == <<widget, dropVars, menuVars, hoverVars>>
notMenu == <<widget, dropVars, pianoVars>>
notHover == <<widget, dropVars, pianoVars>>

Widgets == {"SFileDropTarget", "SPiano", "SValueMenu", "SActionMenu", "STextButton"}

(* --------------------------- SFileDropTarget --------------------------- *)

\* IDataPackage::Type of one item of a drag package
DataTypes == {"kFilePath", "kText", "kBinary"}

\* a drag package: the types of its items, item 0 first
Packages == UNION {[1..n -> DataTypes] : n \in 0..MaxItems}

\* SFileDropTarget::isFileDrop: getCount() == 1 && getDataType(0) == kFilePath
isFileDrop(package) ==
    Len(package) = 1 /\ package[1] = "kFilePath"

setFileDropFunction(f) ==
    /\ widget = "SFileDropTarget"
    /\ dropFunction_' = f
    /\ UNCHANGED <<notDrop, op_, lastEnter, dropCall, dropResult, dropInvoked>>

onDragEnter(drag) ==
    /\ widget = "SFileDropTarget"
    /\ op_' = IF isFileDrop(drag) THEN "Copy" ELSE "None"
    /\ dropResult' = op_'
    /\ lastEnter' = [state |-> "entered", drag |-> drag]
    /\ dropCall' = [call |-> "onDragEnter", drag |-> drag]
    /\ dropInvoked' = FALSE
    /\ UNCHANGED <<notDrop, dropFunction_>>

onDragMove(drag) ==
    /\ widget = "SFileDropTarget"
    /\ dropResult' = op_
    /\ dropCall' = [call |-> "onDragMove", drag |-> drag]
    /\ dropInvoked' = FALSE
    /\ UNCHANGED <<notDrop, op_, dropFunction_, lastEnter>>

onDragLeaveKeepsOp(drag) ==
    /\ widget = "SFileDropTarget"
    /\ lastEnter' = [state |-> "left", drag |-> <<>>]
    /\ dropCall' = [call |-> "onDragLeave", drag |-> drag]
    /\ dropResult' = "void"
    /\ dropInvoked' = FALSE
    /\ UNCHANGED <<notDrop, op_, dropFunction_>>

onDragLeave(drag) ==
    /\ widget = "SFileDropTarget"
    /\ op_' = "None"
    /\ lastEnter' = [state |-> "left", drag |-> <<>>]
    /\ dropCall' = [call |-> "onDragLeave", drag |-> drag]
    /\ dropResult' = "void"
    /\ dropInvoked' = FALSE
    /\ UNCHANGED <<notDrop, dropFunction_>>

onDrop(drag) ==
    /\ widget = "SFileDropTarget"
    /\ dropCall' = [call |-> "onDrop", drag |-> drag]
    /\ IF op_ # "Copy" \/ ~isFileDrop(drag)
         THEN /\ dropResult' = "false"
              /\ dropInvoked' = FALSE
         ELSE /\ dropResult' = "true"
              /\ dropInvoked' = dropFunction_
    /\ UNCHANGED <<notDrop, op_, dropFunction_, lastEnter>>

NextDrop ==
    \/ \E f \in BOOLEAN : setFileDropFunction(f)
    \/ \E drag \in Packages : onDragEnter(drag)
    \/ \E drag \in Packages : onDragMove(drag)
    \/ \E drag \in Packages : onDragLeave(drag)
    \/ \E drag \in Packages : onDrop(drag)

(* -------------------------------- CRect -------------------------------- *)

Rect(l, t, r, b) == [left |-> l, top |-> t, right |-> r, bottom |-> b]

\* CRect::getWidth, CRect::getHeight
getWidth(r) == r.right - r.left
getHeight(r) == r.bottom - r.top

\* CRect::setHeight keeps the top edge
setHeight(r, h) == [r EXCEPT !.bottom = r.top + h]

\* CRect::extend(x, y) moves every edge outwards, by x sideways and y upwards
extend(r, x, y) ==
    Rect(r.left - x, r.top - y, r.right + x, r.bottom + y)

\* std::round of n * 0.5 for an integer n: halves round away from zero
RoundHalf(n) ==
    IF n >= 0 THEN (n + 1) \div 2 ELSE -((1 - n) \div 2)

Min(a, b) == IF a < b THEN a ELSE b
Max(a, b) == IF a > b THEN a ELSE b

(* -------------------------------- SPiano ------------------------------- *)

\* the arguments tried for addKeyRange: key 0, key 127 and KeyMargin to either
\* side of each
KeyArgs ==
    {0 - KeyMargin, 0, KeyMargin, LastKey - KeyMargin, LastKey, LastKey + KeyMargin}

FontSizes == 1..MaxFontSize

\* the indices of std::bitset<128>
Keys == 0..(NumKeys - 1)

\* a bitset with no bit set
NoKeyInRange == [k \in Keys |-> FALSE]

SPiano_setFont(font) ==
    /\ widget = "SPiano"
    /\ pc = "idle"
    /\ fontSize' = font
    /\ pianoCall' = [call |-> "setFont", start |-> 0, end |-> 0]
    /\ UNCHANGED <<notPiano, viewSize, keyInRange_, pc, rangeStart, rangeEnd, bars,
                   reads, zones, unpadded>>

clearKeyRanges ==
    /\ widget = "SPiano"
    /\ pc = "idle"
    /\ keyInRange_' = NoKeyInRange
    /\ pianoCall' = [call |-> "clearKeyRanges", start |-> 0, end |-> 0]
    /\ UNCHANGED <<notPiano, viewSize, fontSize, pc, rangeStart, rangeEnd, bars,
                   reads, zones, unpadded>>

\* std::min(127, std::max(0, k))
ClampKey(k) == Min(LastKey, Max(0, k))

SetKeysExclusive(bits, start, end) ==
    [k \in Keys |-> bits[k] \/ (start <= k /\ k < end)]

\* for (int x = start; x <= end; ++x) keyInRange_.set(x);
\* x takes every value from start to end in turn, so the loop sets bit k
\* exactly when start <= k <= end
SetKeys(bits, start, end) ==
    [k \in Keys |-> bits[k] \/ (start <= k /\ k <= end)]

addKeyRange(start, end) ==
    /\ widget = "SPiano"
    /\ pc = "idle"
    /\ keyInRange_' = SetKeys(keyInRange_, ClampKey(start), ClampKey(end))
    /\ pianoCall' = [call |-> "addKeyRange", start |-> start, end |-> end]
    /\ UNCHANGED <<notPiano, viewSize, fontSize, pc, rangeStart, rangeEnd, bars,
                   reads, zones, unpadded>>

getKeyWidth == 6
getKeySwitchesHeight == 20
getKeyRangesHeight == 11

\* font_->getSize()
getOctavesHeight(font) == font

getKeysHeightNoOctaves(view, font) ==
    getHeight(view) - (getKeySwitchesHeight + getKeyRangesHeight)

getKeysHeight(view, font) ==
    getHeight(view)
        - (getKeySwitchesHeight + getKeyRangesHeight + getOctavesHeight(font))

\* getZoneDimensions up to "apply some paddings": the four zones stacked on
\* each other, each as wide as the view
StackZones(view, font) ==
    LET keySwitches == setHeight(view, getKeySwitchesHeight)
        keyboard == setHeight([view EXCEPT !.top = keySwitches.bottom],
                              getKeysHeight(view, font))
        keyRanges == setHeight([view EXCEPT !.top = keyboard.bottom],
                               getKeyRangesHeight)
        octaves == setHeight([view EXCEPT !.top = keyRanges.bottom],
                             getOctavesHeight(font))
    IN  [keySwitches |-> keySwitches, keyboard |-> keyboard,
         keyRanges |-> keyRanges, octaves |-> octaves]

\* the centering offset: std::round((keyboard.getWidth() - 128.0 * keyWidth) * 0.5)
CenterOffset(keyboard) ==
    RoundHalf(getWidth(keyboard) - NumKeys * getKeyWidth)

\* SPiano::getZoneDimensions, all four out-parameters given
getZoneDimensions(view, font) ==
    LET stacked == StackZones(view, font)
        keySwitches == extend(stacked.keySwitches, -2, -2)
        keyboard == extend(stacked.keyboard, -2, -2)
        keyRanges == extend(stacked.keyRanges, -2, -4)
        octaves == extend(stacked.octaves, -2, -2)
        offset == CenterOffset(keyboard)
    IN  IF offset > 0
          THEN [keySwitches |-> extend(keySwitches, -offset, 0),
                keyboard |-> extend(keyboard, -offset, 0),
                keyRanges |-> extend(keyRanges, -offset, 0),
                octaves |-> extend(octaves, -offset, 0)]
          ELSE [keySwitches |-> keySwitches, keyboard |-> keyboard,
                keyRanges |-> keyRanges, octaves |-> octaves]

\* a caller asks the piano for its zones
SPiano_getZoneDimensions ==
    /\ widget = "SPiano"
    /\ pc = "idle"
    /\ zones' = {getZoneDimensions(viewSize, fontSize)}
    /\ unpadded' = {StackZones(viewSize, fontSize)}
    /\ pianoCall' = [call |-> "getZoneDimensions", start |-> 0, end |-> 0]
    /\ UNCHANGED <<notPiano, viewSize, fontSize, keyInRange_, pc, rangeStart,
                   rangeEnd, bars, reads>>

\* SPiano::draw up to the range scan: the zones are computed, the keys drawn
SPiano_draw ==
    /\ widget = "SPiano"
    /\ pc = "idle"
    /\ zones' = {getZoneDimensions(viewSize, fontSize)}
    /\ unpadded' = {StackZones(viewSize, fontSize)}
    /\ rangeStart' = 0
    /\ rangeEnd' = 0
    /\ bars' = <<>>
    /\ reads' = {}
    /\ pc' = "scan"
    /\ pianoCall' = [call |-> "draw", start |-> 0, end |-> 0]
    /\ UNCHANGED <<notPiano, viewSize, fontSize, keyInRange_>>

\* keyInRange_[k]: bitset::operator[] does not check its index, so a read
\* outside 0..127 is undefined and may give either value
ReadBit(bits, k) == IF k \in Keys THEN {bits[k]} ELSE BOOLEAN

\* one test of the outer loop: if (!keyInRange_[rangeStart]) ++rangeStart;
\* else { int rangeEnd = rangeStart; ...
ScanTest ==
    /\ widget = "SPiano"
    /\ pc = "scan"
    /\ rangeStart < NumKeys
    /\ reads' = reads \cup {rangeStart}
    /\ \E bit \in ReadBit(keyInRange_, rangeStart) :
         IF ~bit
           THEN /\ rangeStart' = rangeStart + 1
                /\ UNCHANGED <<rangeEnd, pc>>
           ELSE /\ rangeEnd' = rangeStart
                /\ pc' = "extend"
                /\ UNCHANGED rangeStart
    /\ UNCHANGED <<notPiano, viewSize, fontSize, keyInRange_, bars, zones,
                   unpadded, pianoCall>>

ExtendLimitShort == NumKeys - 1

ExtendLimitLong == NumKeys + 1

\* the bound of the inner loop's test: rangeEnd + 1 < 128
ExtendLimit == NumKeys

\* one test of the inner loop: while (rangeEnd + 1 < 128 && keyInRange_[rangeEnd + 1])
\* ++rangeEnd; and, when it fails, the bar and rangeStart = rangeEnd + 1
ScanExtend ==
    /\ widget = "SPiano"
    /\ pc = "extend"
    /\ IF rangeEnd + 1 < ExtendLimit
         THEN /\ reads' = reads \cup {rangeEnd + 1}
              /\ \E bit \in ReadBit(keyInRange_, rangeEnd + 1) :
                   IF bit
                     THEN /\ rangeEnd' = rangeEnd + 1
                          /\ UNCHANGED <<rangeStart, bars, pc>>
                     ELSE /\ bars' = Append(bars, <<rangeStart, rangeEnd>>)
                          /\ rangeStart' = rangeEnd + 1
                          /\ pc' = "scan"
                          /\ UNCHANGED rangeEnd
         ELSE /\ bars' = Append(bars, <<rangeStart, rangeEnd>>)
              /\ rangeStart' = rangeEnd + 1
              /\ pc' = "scan"
              /\ UNCHANGED <<rangeEnd, reads>>
    /\ UNCHANGED <<notPiano, viewSize, fontSize, keyInRange_, zones, unpadded,
                   pianoCall>>

\* the scan is over (rangeStart < 128 fails); draw writes the octave numbers and
\* returns, and its locals are gone
DrawReturn ==
    /\ widget = "SPiano"
    /\ pc = "scan"
    /\ ~(rangeStart < NumKeys)
    /\ pc' = "idle"
    /\ rangeStart' = 0
    /\ rangeEnd' = 0
    /\ bars' = <<>>
    /\ reads' = {}
    /\ zones' = {}
    /\ unpadded' = {}
    /\ UNCHANGED <<notPiano, viewSize, fontSize, keyInRange_, pianoCall>>

DrawStep == ScanTest \/ ScanExtend \/ DrawReturn

NextPiano ==
    \/ clearKeyRanges
    \/ \E start \in KeyArgs, end \in KeyArgs : addKeyRange(start, end)
    \/ SPiano_draw
    \/ ScanTest
    \/ ScanExtend
    \/ DrawReturn

NextZones ==
    \/ \E font \in FontSizes : SPiano_setFont(font)
    \/ SPiano_getZoneDimensions

\* the views tried: the heights around the one that leaves the keyboard no
\* height, the widths around the one that holds exactly 128 keys and the paddings
ViewHeights ==
    {getKeySwitchesHeight + getKeyRangesHeight + f + d :
        f \in FontSizes, d \in (0 - HeightMargin)..HeightMargin}

ViewWidths ==
    {NumKeys * getKeyWidth + 4 + d : d \in (0 - WidthMargin)..WidthMargin}

\* the top left corners tried
ViewOrigins == {<<0, 0>>, <<3, 5>>}

ViewSizes ==
    {Rect(o[1], o[2], o[1] + w, o[2] + h) :
        o \in ViewOrigins, w \in ViewWidths, h \in ViewHeights}

\* the one view of the behaviours that scan key ranges
ScanView ==
    Rect(3, 5, 3 + NumKeys * getKeyWidth + 4 + WidthMargin,
         5 + getKeySwitchesHeight + getKeyRangesHeight + MaxFontSize + HeightMargin)

(* ----------------------- SValueMenu, SActionMenu ---------------------- *)

\* the values and tags given to entries
MenuValues == 0..MaxValue

\* the index arguments given to addEntry and addSeparator
MenuIndices == -1..(MaxEntries + 1)

Titles == {"-", "Entry"}

\* the button states of a mouse-down: none of the three buttons, or one of them
ButtonStates == {{}, {"kMButton"}, {"kLButton"}, {"kRButton", "kShift"}, {"kApple"}}

\* new CMenuItem(...): no item is ever deleted, so the items made so far are
\* the entries of the menu
\* the entries of the menu; given is history: the value or tag that was passed
\* to addEntry together with the item
NewItem(title, separator, given) ==
    [id |-> Len(menuItems_) + 1, title |-> title, separator |-> separator,
     given |-> given]

\* vector::insert(begin() + index, x)
InsertAt(seq, index, x) ==
    SubSeq(seq, 1, index) \o <<x>> \o SubSeq(seq, index + 1, Len(seq))

\* an addEntry that also appends when given the index 0
AddedAtAppendsAtZero(seq, x, index) ==
    IF index <= 0 \/ index > Len(menuItems_)
      THEN Append(seq, x)
      ELSE InsertAt(seq, index, x)

\* addEntry(CMenuItem*, value or tag, index) on a vector of items or of values
AddedAt(seq, x, index) ==
    IF index < 0 \/ index > Len(menuItems_)
      THEN Append(seq, x)
      ELSE InsertAt(seq, index, x)

\* history of a handler call: its name, the index it was given (addEntry,
\* addSeparator) or passed to onItemClicked (-1: none), the title it was given,
\* the value it found, the buttons it was given, what it returned
Call(name) ==
    [call |-> name, index |-> -1, title |-> "", oldValue |-> 0, buttons |-> {},
     result |-> "void"]

\* the history of a call of addEntry or addSeparator with its arguments
AddCall(name, title, index) ==
    [Call(name) EXCEPT !.index = index, !.title = title]

\* addEntry(CMenuItem* item, float value, int32_t index)
SValueMenu_addEntryItem(item, val, index, call) ==
    /\ widget = "SValueMenu"
    /\ Len(menuItems_) < MaxEntries
    /\ menuItems_' = AddedAt(menuItems_, item, index)
    /\ menuItemValues_' = AddedAt(menuItemValues_, val, index)
    /\ menuCall' = call
    /\ popup' = <<>>
    /\ popupOpen' = FALSE
    /\ notified' = <<>>
    /\ UNCHANGED <<notMenu, hoverVars, menuItemTags_, value, tag, listener, frame,
                   deferred>>

\* addSeparator(index), called by the client or by addEntry("-", ...)
SValueMenu_newSeparator(index, call) ==
    SValueMenu_addEntryItem(NewItem("", TRUE, 0), 0, index, call)

SValueMenu_addSeparator(index) ==
    SValueMenu_newSeparator(index, AddCall("addSeparator", "", index))

SValueMenu_addEntry(title, val, index) ==
    IF title = "-"
      THEN SValueMenu_newSeparator(index, AddCall("addEntry", title, index))
      ELSE SValueMenu_addEntryItem(NewItem(title, FALSE, val), val, index,
                                   AddCall("addEntry", title, index))

\* addEntry(CMenuItem* item, int32_t tag, int32_t index)
SActionMenu_addEntryItem(item, t, index, call) ==
    /\ widget = "SActionMenu"
    /\ Len(menuItems_) < MaxEntries
    /\ menuItems_' = AddedAt(menuItems_, item, index)
    /\ menuItemTags_' = AddedAt(menuItemTags_, t, index)
    /\ menuCall' = call
    /\ popup' = <<>>
    /\ popupOpen' = FALSE
    /\ notified' = <<>>
    /\ UNCHANGED <<notMenu, hoverVars, menuItemValues_, value, tag, listener, frame,
                   deferred>>

\* addSeparator(index), called by the client or by addEntry("-", ...); the
\* 0.0f it passes converts to the tag 0
SActionMenu_newSeparator(index, call) ==
    SActionMenu_addEntryItem(NewItem("", TRUE, 0), 0, index, call)

SActionMenu_addSeparator(index) ==
    SActionMenu_newSeparator(index, AddCall("addSeparator", "", index))

SActionMenu_addEntry(title, t, index) ==
    IF title = "-"
      THEN SActionMenu_newSeparator(index, AddCall("addEntry", title, index))
      ELSE SActionMenu_addEntryItem(NewItem(title, FALSE, t), t, index,
                                    AddCall("addEntry", title, index))

\* the toolkit attaches the view to a frame or removes it from its frame
attached ==
    /\ widget \in {"SValueMenu", "SActionMenu"}
    /\ ~frame
    /\ frame' = TRUE
    /\ menuCall' = Call("attached")
    /\ popup' = <<>>
    /\ popupOpen' = FALSE
    /\ notified' = <<>>
    /\ UNCHANGED <<notMenu, hoverVars, menuItems_, menuItemValues_, menuItemTags_,
                   value, tag, listener, deferred>>

removed ==
    /\ widget \in {"SValueMenu", "SActionMenu"}
    /\ frame
    /\ frame' = FALSE
    /\ menuCall' = Call("removed")
    /\ popup' = <<>>
    /\ popupOpen' = FALSE
    /\ notified' = <<>>
    /\ UNCHANGED <<notMenu, hoverVars, menuItems_, menuItemValues_, menuItemTags_,
                   value, tag, listener, deferred>>

\* buttons & (kLButton|kRButton|kApple)
OpensMenu(buttons) == buttons \cap {"kLButton", "kRButton", "kApple"} # {}

\* onMouseDown of either menu: the frame delivers the event, so the view is
\* attached; the closure is queued with doAfterEventProcessing
MenuMouseDown(buttons) ==
    /\ frame
    /\ IF OpensMenu(buttons)
         THEN /\ deferred < MaxDeferred
              /\ deferred' = deferred + 1
              /\ menuCall' = [Call("onMouseDown") EXCEPT
                    !.buttons = buttons,
                    !.result = "kMouseDownEventHandledButDontNeedMovedOrUpEvents"]
         ELSE /\ UNCHANGED deferred
              /\ menuCall' = [Call("onMouseDown") EXCEPT
                    !.buttons = buttons,
                    !.result = "kMouseEventNotHandled"]
    /\ popup' = <<>>
    /\ popupOpen' = FALSE
    /\ notified' = <<>>
    /\ UNCHANGED <<notMenu, hoverVars, menuItems_, menuItemValues_, menuItemTags_,
                   value, tag, listener, frame>>

SValueMenu_onMouseDown(buttons) ==
    widget = "SValueMenu" /\ MenuMouseDown(buttons)

SActionMenu_onMouseDown(buttons) ==
    widget = "SActionMenu" /\ MenuMouseDown(buttons)

\* setValue(v) followed by getValue(): the toolkit's CControl keeps the value it
\* is given; the values given here, those of the entries and 0 and 1, lie in
\* the control's range
setValue(v) == v

SValueMenu_onItemClickedAlways(index) ==
    /\ value' = setValue(menuItemValues_[index + 1])
    /\ notified' = <<[tag |-> tag, value |-> value']>>
    /\ UNCHANGED tag

\* SValueMenu::onItemClicked(index): the value it leaves, its valueChanged calls
SValueMenu_onItemClicked(index) ==
    LET oldValue == value
        newValue == setValue(menuItemValues_[index + 1])
    IN  /\ value' = newValue
        /\ notified' = IF newValue # oldValue
                         THEN <<[tag |-> tag, value |-> newValue]>>
                         ELSE <<>>
        /\ UNCHANGED tag

SActionMenu_onItemClickedOnce(index) ==
    /\ tag' = menuItemTags_[index + 1]
    /\ value' = setValue(0)
    /\ notified' = IF listener
                     THEN <<[tag |-> tag', value |-> setValue(1)]>>
                     ELSE <<>>

\* SActionMenu::onItemClicked(index): what the listener sees at each call
SActionMenu_onItemClicked(index) ==
    LET newTag == menuItemTags_[index + 1]
    IN  /\ tag' = newTag
        /\ value' = setValue(0)
        /\ notified' = IF listener
                         THEN <<[tag |-> newTag, value |-> setValue(1)],
                                [tag |-> newTag, value |-> setValue(0)]>>
                         ELSE <<>>

PopupItemsNoSeparators(items) ==
    SelectSeq(items, LAMBDA item : ~item.separator)

\* for (item : self->menuItems_) menu->addEntry(item): the popup's items
PopupItems(items) == items

\* what the user may choose in a popup: no item (-1), or the item at a position,
\* counted from 0; menuListener_ calls onItemClicked with that position
PopupChoices(items) == {-1} \cup {i - 1 : i \in DOMAIN items}

\* the closure queued by onMouseDown runs: if the view still has a frame the
\* popup is built from the entries and popped up, and popup returns after the
\* user has chosen an item of it or none
MenuClosure(choice) ==
    /\ deferred > 0
    /\ deferred' = deferred - 1
    /\ IF frame
         THEN /\ popup' = PopupItems(menuItems_)
              /\ popupOpen' = TRUE
              /\ choice \in PopupChoices(popup')
              /\ menuCall' = [Call("afterEventProcessing") EXCEPT
                                !.index = choice, !.oldValue = value]
         ELSE /\ choice = -1
              /\ popup' = <<>>
              /\ popupOpen' = FALSE
              /\ menuCall' = [Call("afterEventProcessing") EXCEPT
                                !.oldValue = value]
    /\ UNCHANGED <<notMenu, hoverVars, menuItems_, menuItemValues_, menuItemTags_,
                   listener, frame>>

SValueMenu_afterEventProcessing(choice) ==
    /\ widget = "SValueMenu"
    /\ MenuClosure(choice)
    /\ IF choice # -1
         THEN SValueMenu_onItemClicked(choice)
         ELSE notified' = <<>> /\ UNCHANGED <<value, tag>>

SActionMenu_afterEventProcessing(choice) ==
    /\ widget = "SActionMenu"
    /\ MenuClosure(choice)
    /\ IF choice # -1
         THEN SActionMenu_onItemClicked(choice)
         ELSE notified' = <<>> /\ UNCHANGED <<value, tag>>

NextMenu ==
    \/ \E title \in Titles, v \in MenuValues, index \in MenuIndices :
          SValueMenu_addEntry(title, v, index)
    \/ \E index \in MenuIndices : SValueMenu_addSeparator(index)
    \/ \E title \in Titles, t \in MenuValues, index \in MenuIndices :
          SActionMenu_addEntry(title, t, index)
    \/ \E index \in MenuIndices : SActionMenu_addSeparator(index)
    \/ attached
    \/ removed
    \/ \E buttons \in ButtonStates : SValueMenu_onMouseDown(buttons)
    \/ \E buttons \in ButtonStates : SActionMenu_onMouseDown(buttons)
    \/ \E choice \in -1..(MaxEntries - 1) : SValueMenu_afterEventProcessing(choice)
    \/ \E choice \in -1..(MaxEntries - 1) : SActionMenu_afterEventProcessing(choice)

(* ------------------------ STextButton, SActionMenu hover --------------- *)

Colors == 0..MaxColor

STextButton_setHoverColor(color) ==
    /\ widget = "STextButton"
    /\ hoverColor_' = color
    /\ drawColor' = {}
    /\ UNCHANGED <<notHover, menuVars, hovered_, inactive_, inactiveColor_, textColor,
                   fontColor, lastMouse, firstColor>>

STextButton_setInactiveColor(color) ==
    /\ widget = "STextButton"
    /\ inactiveColor_' = color
    /\ drawColor' = {}
    /\ UNCHANGED <<notHover, menuVars, hovered_, inactive_, hoverColor_, textColor,
                   fontColor, lastMouse, firstColor>>

STextButton_setInactive(b) ==
    /\ widget = "STextButton"
    /\ inactive_' = b
    /\ drawColor' = {}
    /\ UNCHANGED <<notHover, menuVars, hovered_, hoverColor_, inactiveColor_, textColor,
                   fontColor, lastMouse, firstColor>>

STextButton_drawKeepsColor ==
    /\ widget = "STextButton"
    /\ textColor' = (IF hovered_ THEN hoverColor_
                     ELSE IF inactive_ THEN inactiveColor_ ELSE textColor)
    /\ drawColor' = {textColor'}
    /\ UNCHANGED <<notHover, menuVars, hovered_, inactive_, hoverColor_,
                   inactiveColor_, fontColor, lastMouse, firstColor>>

\* STextButton::draw: CTextButton::draw runs with textColor replaced, and the
\* backup is put back after it
STextButton_draw ==
    LET backupColor == textColor
        during == IF hovered_ THEN hoverColor_
                  ELSE IF inactive_ THEN inactiveColor_ ELSE textColor
    IN  /\ widget = "STextButton"
        /\ drawColor' = {during}
        /\ textColor' = backupColor
        /\ UNCHANGED <<notHover, menuVars, hovered_, inactive_, hoverColor_,
                       inactiveColor_, fontColor, lastMouse, firstColor>>

STextButton_onMouseEntered ==
    /\ widget = "STextButton"
    /\ hovered_' = TRUE
    /\ lastMouse' = "entered"
    /\ drawColor' = {}
    /\ UNCHANGED <<notHover, menuVars, inactive_, hoverColor_, inactiveColor_,
                   textColor, fontColor, firstColor>>

STextButton_onMouseExited ==
    /\ widget = "STextButton"
    /\ hovered_' = FALSE
    /\ lastMouse' = "exited"
    /\ drawColor' = {}
    /\ UNCHANGED <<notHover, menuVars, inactive_, hoverColor_, inactiveColor_,
                   textColor, fontColor, firstColor>>

SActionMenu_setHoverColor(color) ==
    /\ widget = "SActionMenu"
    /\ hoverColor_' = color
    /\ drawColor' = {}
    /\ UNCHANGED <<notHover, menuVars, hovered_, inactive_, inactiveColor_, textColor,
                   fontColor, lastMouse, firstColor>>

\* SActionMenu::draw: CParamDisplay::draw runs with fontColor replaced when
\* hovered, and the backup is put back after it when hovered
SActionMenu_draw ==
    LET backupColor == fontColor
        during == IF hovered_ THEN hoverColor_ ELSE fontColor
    IN  /\ widget = "SActionMenu"
        /\ drawColor' = {during}
        /\ fontColor' = (IF hovered_ THEN backupColor ELSE during)
        /\ UNCHANGED <<notHover, menuVars, hovered_, inactive_, hoverColor_,
                       inactiveColor_, textColor, lastMouse, firstColor>>

SActionMenu_onMouseEntered ==
    /\ widget = "SActionMenu"
    /\ hovered_' = TRUE
    /\ lastMouse' = "entered"
    /\ drawColor' = {}
    /\ UNCHANGED <<notHover, menuVars, inactive_, hoverColor_, inactiveColor_,
                   textColor, fontColor, firstColor>>

SActionMenu_onMouseExited ==
    /\ widget = "SActionMenu"
    /\ hovered_' = FALSE
    /\ lastMouse' = "exited"
    /\ drawColor' = {}
    /\ UNCHANGED <<notHover, menuVars, inactive_, hoverColor_, inactiveColor_,
                   textColor, fontColor, firstColor>>

NextHover ==
    \/ \E color \in Colors : STextButton_setHoverColor(color)
    \/ \E color \in Colors : STextButton_setInactiveColor(color)
    \/ \E b \in BOOLEAN : STextButton_setInactive(b)
    \/ STextButton_draw
    \/ STextButton_onMouseEntered
    \/ STextButton_onMouseExited
    \/ \E color \in Colors : SActionMenu_setHoverColor(color)
    \/ SActionMenu_draw
    \/ SActionMenu_onMouseEntered
    \/ SActionMenu_onMouseExited

\* every handler of every widget; the claims are checked under the
\* specifications below, each of which runs the handlers of one widget
Next == NextDrop \/ NextPiano \/ NextZones \/ NextMenu \/ NextHover

(* ------------------------------- Init ---------------------------------- *)

Init ==
    /\ widget \in Widgets
    /\ op_ = "None"
    /\ dropFunction_ = FALSE
    /\ lastEnter = [state |-> "none", drag |-> <<>>]
    /\ dropCall = [call |-> "none", drag |-> <<>>]
    /\ dropResult = "void"
    /\ dropInvoked = FALSE
    \* SPiano(bounds): font_(kNormalFont), no key in range
    /\ viewSize \in (IF widget = "SPiano" THEN ViewSizes ELSE {Rect(0, 0, 0, 0)})
    /\ fontSize \in (IF widget = "SPiano" THEN FontSizes ELSE {1})
    /\ keyInRange_ = NoKeyInRange
    /\ pc = "idle"
    /\ rangeStart = 0
    /\ rangeEnd = 0
    /\ bars = <<>>
    /\ reads = {}
    /\ zones = {}
    /\ unpadded = {}
    /\ pianoCall = [call |-> "SPiano", start |-> 0, end |-> 0]
    /\ menuItems_ = <<>>
    /\ menuItemValues_ = <<>>
    /\ menuItemTags_ = <<>>
    \* SValueMenu(bounds, listener, tag), SActionMenu(bounds, listener)
    /\ value = 0
    /\ tag = 0
    /\ listener \in (IF widget = "SActionMenu" THEN BOOLEAN ELSE {FALSE})
    /\ frame = FALSE
    /\ deferred = 0
    /\ popup = <<>>
    /\ popupOpen = FALSE
    /\ notified = <<>>
    /\ menuCall = Call("none")
    /\ hovered_ = FALSE
    /\ inactive_ = FALSE
    \* STextButton, SActionMenu: not hovered, not inactive, any colours
    /\ hoverColor_ \in (IF widget \in {"STextButton", "SActionMenu"} THEN Colors ELSE {0})
    /\ inactiveColor_ \in (IF widget = "STextButton" THEN Colors ELSE {0})
    /\ textColor \in (IF widget = "STextButton" THEN Colors ELSE {0})
    /\ fontColor \in (IF widget = "SActionMenu" THEN Colors ELSE {0})
    /\ drawColor = {}
    /\ lastMouse = "none"
    /\ firstColor = (IF widget = "STextButton" THEN textColor ELSE fontColor)

Spec == Init /\ [][Next]_vars /\ WF_vars(DrawStep)

InitDrop == Init /\ widget = "SFileDropTarget"
SpecDrop == InitDrop /\ [][NextDrop]_vars

InitPiano == Init /\ widget = "SPiano" /\ viewSize = ScanView /\ fontSize = MaxFontSize
SpecPiano == InitPiano /\ [][NextPiano]_vars /\ WF_vars(DrawStep)

InitMenu ==
    Init /\ widget \in {"SValueMenu", "SActionMenu"} /\ hoverColor_ = 0 /\ fontColor = 0
SpecMenu == InitMenu /\ [][NextMenu]_vars

InitZones == Init /\ widget = "SPiano"
SpecZones == InitZones /\ [][NextZones]_vars

InitHover == Init /\ widget \in {"STextButton", "SActionMenu"} /\ ~listener
SpecHover == InitHover /\ [][NextHover]_vars

(* ------------------------------- C1 ------------------------------------ *)

\* the last handler was the queued closure and the user chose an item in it
ItemClicked(class) ==
    /\ widget = class
    /\ menuCall.call = "afterEventProcessing"
    /\ menuCall.index >= 0

\* the entry at the index that was handed to onItemClicked
ClickedEntry == menuItems_[menuCall.index + 1]

\* C1: SActionMenu::onItemClicked(index) sets the tag to the tag registered
\* for the entry at index and, with a listener, notifies it exactly twice, first
\* with the value 1 and then with the value 0, both times with that tag; with
\* no listener nobody is notified; the value ends at 0.
C1_ActionClickNotifiesTwice ==
    ItemClicked("SActionMenu") =>
        /\ tag = ClickedEntry.given
        /\ value = 0
        /\ IF listener
             THEN /\ Len(notified) = 2
                  /\ notified[1] = [tag |-> ClickedEntry.given, value |-> 1]
                  /\ notified[2] = [tag |-> ClickedEntry.given, value |-> 0]
             ELSE notified = <<>>

\* a click on the second entry, whose tag is not the first entry's, with a listener
C1_Witness ==
    /\ ItemClicked("SActionMenu")
    /\ listener
    /\ menuCall.index = 1
    /\ ClickedEntry.given > 0
    /\ menuItems_[1].given # ClickedEntry.given
    /\ Len(notified) = 2

(* ------------------------------- C2 ------------------------------------ *)

\* C2: SValueMenu::onItemClicked(index) sets the value to the value registered
\* for the entry at index and calls valueChanged once if that changed the
\* control's value, and not at all if it did not.
C2_ValueClickNotifiesOnChange ==
    ItemClicked("SValueMenu") =>
        /\ value = ClickedEntry.given
        /\ Len(notified) = (IF value # menuCall.oldValue THEN 1 ELSE 0)
        /\ \A i \in DOMAIN notified : notified[i].value = value

\* a click on the entry that is selected already: nobody is notified
C2_Witness ==
    /\ ItemClicked("SValueMenu")
    /\ menuCall.index = 1
    /\ value = menuCall.oldValue
    /\ value > 0
    /\ notified = <<>>

(* ------------------------------- C9 ------------------------------------ *)

\* C9: a mouse-down with the left, right or Apple button pops up nothing
\* itself and queues one closure; any other mouse-down is not handled and
\* queues nothing.  The queued closure pops a menu up exactly when the view
\* still has a frame, the popup then holds the entries of that moment in their
\* order, separators too, and the index handed on for a chosen item is the
\* position of that item among the entries and of its value or tag.
C9_PopupIsDeferredAndIndexed ==
    /\ [][menuCall'.call = "onMouseDown" =>
            /\ ~popupOpen'
            /\ IF menuCall'.buttons \cap {"kLButton", "kRButton", "kApple"} # {}
                 THEN /\ deferred' = deferred + 1
                      /\ menuCall'.result # "kMouseEventNotHandled"
                 ELSE /\ deferred' = deferred
                      /\ menuCall'.result = "kMouseEventNotHandled"]_vars
    /\ [][menuCall'.call = "afterEventProcessing" =>
            /\ deferred' = deferred - 1
            /\ popupOpen' = frame
            /\ popupOpen' => popup' = menuItems_]_vars
    /\ [](popupOpen => menuCall.call = "afterEventProcessing")
    /\ [](menuCall.call = "afterEventProcessing" /\ menuCall.index >= 0 =>
            /\ popupOpen
            /\ menuCall.index + 1 \in DOMAIN popup
            /\ popup[menuCall.index + 1] = ClickedEntry
            /\ widget = "SValueMenu" =>
                  menuItemValues_[menuCall.index + 1] = ClickedEntry.given
            /\ widget = "SActionMenu" =>
                  menuItemTags_[menuCall.index + 1] = ClickedEntry.given)

\* the item after a separator was chosen in a popup while a second mouse-down's
\* closure still waits
C9_Witness ==
    /\ menuCall.call = "afterEventProcessing"
    /\ menuCall.index = 1
    /\ popupOpen
    /\ popup[1].separator
    /\ deferred = 1

(* ------------------------------- C3 ------------------------------------ *)

\* the keys whose bit is set
Marked == {k \in Keys : keyInRange_[k]}

\* a bound clamped to 0..127, as the claim words it
ClampedBound(k) == IF k < 0 THEN 0 ELSE IF k > 127 THEN 127 ELSE k

\* C3: a call of addKeyRange(start, end) marks exactly the keys k with
\* clampedStart <= k <= clampedEnd (none when clampedStart > clampedEnd) and
\* leaves every other mark as it was, and clearKeyRanges leaves no key marked;
\* so the marked keys are the union of the clamped intervals added since the
\* last clearKeyRanges, all within 0..127.
C3_AddKeyRangeMarksClampedInterval ==
    [][(pc = "idle" /\ pc' = "idle") =>
          /\ pianoCall'.call = "addKeyRange" =>
                Marked' = Marked \cup
                    {k \in 0..127 : /\ ClampedBound(pianoCall'.start) <= k
                                    /\ k <= ClampedBound(pianoCall'.end)}
          /\ pianoCall'.call = "clearKeyRanges" => Marked' = {}
          /\ Marked' \subseteq 0..127]_vars

\* both bounds were clamped, and the call marked a key next to one marked before
C3_Witness ==
    /\ pianoCall.call = "addKeyRange"
    /\ pianoCall.start > 127
    /\ pianoCall.end > 127
    /\ Marked = {0, 127}

(* ------------------------------- C4 ------------------------------------ *)

\* the scan of this draw has tested every key
ScanDone == pc = "scan" /\ rangeStart >= NumKeys

BarKeys(i) == bars[i][1]..bars[i][2]

\* C4: when the range scan of draw is over, the bars it filled are the maximal
\* runs of consecutive marked keys: every marked key is in exactly one bar, no
\* bar holds an unmarked key, the bars come in increasing key order and an
\* unmarked key lies between any two of them.
C4_BarsAreMaximalRuns ==
    ScanDone =>
        /\ \A k \in Marked :
              Cardinality({i \in DOMAIN bars : k \in BarKeys(i)}) = 1
        /\ \A i \in DOMAIN bars :
              /\ bars[i][1] <= bars[i][2]
              /\ BarKeys(i) \subseteq Marked
        /\ \A i \in DOMAIN bars : \A j \in DOMAIN bars :
              i < j => /\ bars[i][2] + 1 < bars[j][1]
                       /\ \E k \in (bars[i][2] + 1)..(bars[j][1] - 1) : k \notin Marked

\* two bars, the first a run of two keys, the second ending at key 127
C4_Witness ==
    /\ ScanDone
    /\ Len(bars) = 2
    /\ bars[1] = <<0, 1>>
    /\ bars[2][2] = 127

(* ------------------------------- C5 ------------------------------------ *)

\* C5: the range scan terminates and never reads outside the bitset: every
\* index at which draw reads keyInRange_ lies in 0..127, every pass of the
\* outer loop leaves rangeStart strictly greater than it found it and at most
\* 128, and a draw that has begun returns.
C5_ScanTerminatesInBounds ==
    /\ [](reads \subseteq 0..127)
    /\ [][(pc \in {"scan", "extend"} /\ pc' = "scan") =>
              (rangeStart < rangeStart' /\ rangeStart' <= 128)]_vars
    /\ [][(pc \in {"scan", "extend"} /\ pc' = "extend") =>
              (rangeStart' = rangeStart /\ rangeStart <= rangeEnd' /\ rangeEnd' <= 127)]_vars
    /\ ((pc # "idle") ~> (pc = "idle"))

\* the inner loop stands at key 127, which is marked, and has read it at index 127
C5_Witness ==
    /\ pc = "extend"
    /\ rangeEnd = 127
    /\ keyInRange_[127]
    /\ 127 \in reads

(* ------------------------------- C6 ------------------------------------ *)

\* the colour the widget keeps: textColor of STextButton, fontColor of SActionMenu
StoredColor == IF widget = "STextButton" THEN textColor ELSE fontColor

\* C6: whatever mouse-enter, mouse-exit, setInactive, setHoverColor,
\* setInactiveColor and draw calls were made, the stored colour is the one the
\* widget was built with; the base class draws STextButton with the hover
\* colour if hovered, else the inactive colour if inactive, else the stored
\* colour, and SActionMenu with the hover colour if hovered, else the stored
\* colour; hovered_ is true exactly when the most recent of mouse-enter and
\* mouse-exit was a mouse-enter.
C6_HoverChangesOnlyTheDrawColour ==
    widget \in {"STextButton", "SActionMenu"} =>
        /\ StoredColor = firstColor
        /\ hovered_ = (lastMouse = "entered")
        /\ \A c \in drawColor :
              c = (IF lastMouse = "entered" THEN hoverColor_
                   ELSE IF widget = "STextButton" /\ inactive_ THEN inactiveColor_
                   ELSE firstColor)

\* an inactive button, left by the mouse, was drawn in the inactive colour
C6_Witness ==
    /\ widget = "STextButton"
    /\ lastMouse = "exited"
    /\ inactive_
    /\ drawColor = {inactiveColor_}
    /\ inactiveColor_ # firstColor
    /\ hoverColor_ # inactiveColor_

(* ------------------------------- C7 ------------------------------------ *)

\* getZoneDimensions was the last call: zones is what it gave for this view and font
ZonesGiven == pianoCall.call = "getZoneDimensions"

FourZones(z) == {z.keySwitches, z.keyboard, z.keyRanges, z.octaves}

\* no edge of r is outside the view
InsideView(r) ==
    /\ viewSize.top <= r.top
    /\ r.bottom <= viewSize.bottom
    /\ viewSize.left <= r.left
    /\ r.right <= viewSize.right

\* C7: for a view at least 20 + 11 + font size high, the zones getZoneDimensions
\* gives lie top to bottom in the order key switches, keyboard, key ranges,
\* octaves, none reaching below the top of a later one, each inside the view; and
\* before the paddings they are stacked without gaps from the view's top edge
\* to its bottom edge, their heights adding up to the view's height.
C7_ZonesPartitionTheHeight ==
    (ZonesGiven /\ getHeight(viewSize) >= 20 + 11 + fontSize) =>
        /\ \A z \in zones :
              /\ z.keySwitches.top < z.keyboard.top
              /\ z.keyboard.top < z.keyRanges.top
              /\ z.keyRanges.top < z.octaves.top
              /\ z.keySwitches.bottom <= z.keyboard.top
              /\ z.keySwitches.bottom <= z.keyRanges.top
              /\ z.keySwitches.bottom <= z.octaves.top
              /\ z.keyboard.bottom <= z.keyRanges.top
              /\ z.keyboard.bottom <= z.octaves.top
              /\ z.keyRanges.bottom <= z.octaves.top
              /\ \A r \in FourZones(z) : InsideView(r)
        /\ \A u \in unpadded :
              /\ u.keySwitches.top = viewSize.top
              /\ u.keyboard.top = u.keySwitches.bottom
              /\ u.keyRanges.top = u.keyboard.bottom
              /\ u.octaves.top = u.keyRanges.bottom
              /\ u.octaves.bottom = viewSize.bottom
              /\ getHeight(u.keySwitches) = 20
              /\ getHeight(u.keyboard) >= 0
              /\ getHeight(u.keyRanges) = 11
              /\ getHeight(u.octaves) = fontSize
              /\ getHeight(u.keySwitches) + getHeight(u.keyboard)
                    + getHeight(u.keyRanges) + getHeight(u.octaves)
                 = getHeight(viewSize)

\* the zones of a view just high enough, away from the origin, with a keyboard
\* that was centered
C7_Witness ==
    /\ ZonesGiven
    /\ getHeight(viewSize) = 20 + 11 + fontSize
    /\ viewSize.top > 0
    /\ \E z \in zones : z.keyboard.left > viewSize.left + 2

(* ------------------------------- C8 ------------------------------------ *)

\* C8: for a view whose padded width (its width minus 4) is at least 768, the
\* keyboard zone is at least 768 wide, every key rectangle
\* [left + 6k, left + 6k + 6], k in 0..127, lies within it, and the four zones
\* have the same left and right edges.
C8_KeysInsideKeyboardZone ==
    (ZonesGiven /\ getWidth(viewSize) - 4 >= 768) =>
        \A z \in zones :
            /\ getWidth(z.keyboard) >= 768
            /\ \A k \in 0..127 :
                  /\ z.keyboard.left <= z.keyboard.left + 6 * k
                  /\ z.keyboard.left + 6 * k + 6 <= z.keyboard.right
            /\ \A r \in FourZones(z) :
                  r.left = z.keyboard.left /\ r.right = z.keyboard.right

(* ------------------------------ C10 ------------------------------------ *)

\* "exactly one item of file-path type", as the claim words it
SingleFilePath(package) ==
    Cardinality(DOMAIN package) = 1
        /\ \A i \in DOMAIN package : package[i] = "kFilePath"

\* the most recent onDragEnter carried a single file path, no onDragLeave since
EnteredWithFile ==
    lastEnter.state = "entered" /\ SingleFilePath(lastEnter.drag)

\* C10: the file-drop callback is invoked only by an onDrop whose package is a
\* single file path, arriving while the most recent onDragEnter carried a
\* single file path and no onDragLeave followed it; every other onDrop returns
\* false and invokes nothing; onDragMove returns Copy in that entered state and
\* None otherwise.
C10_DropOnlyAfterFileEnter ==
    /\ dropInvoked =>
          /\ dropCall.call = "onDrop"
          /\ EnteredWithFile
          /\ SingleFilePath(dropCall.drag)
    /\ dropCall.call = "onDrop" =>
          IF EnteredWithFile /\ SingleFilePath(dropCall.drag)
            THEN dropResult = "true"
            ELSE dropResult = "false" /\ ~dropInvoked
    /\ dropCall.call = "onDragMove" =>
          dropResult = (IF EnteredWithFile THEN "Copy" ELSE "None")

\* a drop that reached the callback, and a refused drop after a leave
C10_Witness ==
    /\ dropCall.call = "onDrop"
    /\ dropInvoked
    /\ dropResult = "true"

(* ------------------------------ C11 ------------------------------------ *)

\* the list kept in parallel with menuItems_
MenuPairs == IF widget = "SValueMenu" THEN menuItemValues_ ELSE menuItemTags_

\* getNbEntries()
getNbEntries == Len(menuItems_)

\* the last handler was addEntry or addSeparator
Added == menuCall.call \in {"addEntry", "addSeparator"}

\* the position (from 1) at which a call with this index argument has to put
\* its pair in a menu of n entries
AddPosition(index, n) == IF 0 <= index /\ index <= n THEN index + 1 ELSE n + 1

\* C11: in SValueMenu and in SActionMenu the item list and the value or tag
\* list always have the same length, getNbEntries(), and the value or tag at
\* each position is the one that was supplied with the item at that position;
\* a call of addEntry or addSeparator with an index in 0..getNbEntries() puts
\* its pair at that position and moves the later pairs up by one, a call with
\* any other index puts its pair at the end, the earlier pairs stay, and an
\* entry titled "-" and a separator are added as a separator item paired with 0.
C11_EntriesStayPaired ==
    /\ [](widget \in {"SValueMenu", "SActionMenu"} =>
            /\ Len(MenuPairs) = getNbEntries
            /\ \A i \in 1..getNbEntries : MenuPairs[i] = menuItems_[i].given)
    /\ [][Added' =>
            LET n == getNbEntries
                at == AddPosition(menuCall'.index, n)
            IN  /\ getNbEntries' = n + 1
                /\ Len(MenuPairs') = n + 1
                /\ \A i \in 1..(n + 1) :
                      /\ i < at => /\ menuItems_'[i] = menuItems_[i]
                                   /\ MenuPairs'[i] = MenuPairs[i]
                      /\ i > at => /\ menuItems_'[i] = menuItems_[i - 1]
                                   /\ MenuPairs'[i] = MenuPairs[i - 1]
                /\ \A i \in 1..n : menuItems_'[at].id # menuItems_[i].id
                /\ MenuPairs'[at] = menuItems_'[at].given
                /\ IF menuCall'.call = "addSeparator" \/ menuCall'.title = "-"
                     THEN menuItems_'[at].separator /\ MenuPairs'[at] = 0
                     ELSE /\ ~menuItems_'[at].separator
                          /\ menuItems_'[at].title = menuCall'.title]_vars

\* an entry titled "-" was added at index 0 of a menu holding an entry paired
\* with a value or tag other than 0, which moved up by one
C11_Witness ==
    /\ widget \in {"SValueMenu", "SActionMenu"}
    /\ menuCall.call = "addEntry"
    /\ menuCall.title = "-"
    /\ menuCall.index = 0
    /\ getNbEntries = 2
    /\ menuItems_[1].separator
    /\ MenuPairs = <<0, MaxValue>>

====
